---- MODULE Spec2Model ----
(***************************************************************************)
(* bitchomp: a cursor-based ByteReader over an immutable byte buffer, a    *)
(* ByteWriter over a growable byte buffer, and the TryFromBytes / ToBytes  *)
(* conversions (fixed-width integers, null-terminated text) both use.      *)
(*                                                                         *)
(* Values.  An integer value is held as a TLC integer.  TLC's integers are *)
(* 32 bits wide, so a u32 at or above 2^31 is held as v - 2^32 (one-to-one *)
(* on the 2^32 bit patterns: equality of values is exact); AsUsize maps    *)
(* such a value to UsizeHuge.  A String is held as the sequence of its     *)
(* UTF-8 bytes.                                                            *)
(***************************************************************************)
EXTENDS Integers, Sequences, FiniteSets, TLC

VARIABLES
    mem,         \* the allocation the reader's slices point into (never written)
    buf,         \* ByteReader.buf    : the slice [off, len] of mem
    cursor,      \* ByteReader.cursor : the slice [off, len] of mem
    endianness,  \* ByteReader.endianness
    host,        \* the byte order of the build's target (read_unaligned is native)
    ret,         \* what the last ByteReader call returned
    it,          \* the ByteReaderIterator made from the reader, and what it yielded
    wbuf,        \* ByteWriter.buf
    wend,        \* ByteWriter.endianness
    wret,        \* what the last ByteWriter call returned
    wlog,        \* the values handed to the writer so far, in order
    rlog,        \* what reading back returned, since the reader was made from writer.buf()
    cArg,        \* codec: the input of the conversion under test
    cRes         \* codec: its result

vars == <<mem, buf, cursor, endianness, host, ret, it, wbuf, wend, wret, wlog, rlog, cArg, cRes>>
readerVars == <<mem, buf, cursor, endianness, host, ret, it>>
writerVars == <<wbuf, wend, wret, wlog>>
codecVars == <<cArg, cRes>>

----------------------------------------------------------------------------
(* Bounds of the model *)

\* longest buffer a reader is constructed over in SpecReader
MaxLen == 3
\* largest element count passed to read_n / peek_n
MaxN == 3
\* longest WriteBuffer built in SpecWriter
MaxWLen == 8
\* most values handed to the writer before its bytes are read back
MaxItems == 3
\* longest String content handed to the writer
MaxStr == 2
\* longest vector handed to write_sized_vec
MaxVec == 2
\* most extra bytes supplied after an encoding in SpecCodec
MaxTail == 2
\* longest WriteBuffer built in SpecPatch
MaxPLen == 4
\* largest element count a length prefix announces in SpecFrames
MaxCount == 2
\* most bytes that follow a length prefix in SpecFrames
MaxBody == 2

\* the byte values buffers are drawn from: zero (the text terminator), an ASCII
\* byte, and 0xFF (high bit set; never valid in UTF-8)
ByteAlphabet == {0, 1, 255}

\* the buffer of test_bytereader_read_sized_vector, cut to its first 8 bytes
\* (the concrete scenario of the specification)
ScenarioBuffer == <<1, 1, 1, 12, 0, 0, 0, 0>>

----------------------------------------------------------------------------
(* transmutable.rs *)

Endianness == {"Little", "Big"}
DefaultEndianness == "Little"

IntTypes == {"u8", "i8", "u16", "i16", "u32", "i32"}

\* size_of::<T>().  A String is three words (pointer, capacity, length): 24
\* bytes on the 64-bit targets the model is of.
SizeOf(T) ==
    CASE T \in {"u8", "i8"} -> 1
      [] T \in {"u16", "i16"} -> 2
      [] T \in {"u32", "i32"} -> 4
      [] T = "String" -> 24

Signed(T) == T \in {"i8", "i16", "i32"}

Reverse(s) == [i \in 1..Len(s) |-> s[Len(s) + 1 - i]]

\* the most significant byte's contribution: two's complement for the signed
\* types, and for the 4-byte types (see the note on values above)
TopByte(T, b) ==
    IF (Signed(T) \/ SizeOf(T) = 4) /\ b >= 128 THEN b - 256 ELSE b

RECURSIVE LEValue(_, _)
LEValue(T, le) ==
    IF Len(le) = 1 THEN TopByte(T, le[1])
    ELSE le[1] + 256 * LEValue(T, Tail(le))

\* T::from_le_bytes / T::from_be_bytes on an array of exactly SizeOf(T) bytes
FromLeBytes(T, arr) == LEValue(T, arr)
FromBeBytes(T, arr) == LEValue(T, Reverse(arr))

\* T::to_le_bytes / T::to_be_bytes
ToLeBytes(T, v) == [i \in 1..SizeOf(T) |-> (v \div (256 ^ (i - 1))) % 256]
ToBeBytes(T, v) == Reverse(ToLeBytes(T, v))

Ok(v, n) == [ok |-> TRUE, val |-> v, size |-> n, err |-> "none"]
Err(e) == [ok |-> FALSE, val |-> 0, size |-> 0, err |-> e]

\* a decode that is big-endian whatever the Endianness
TryFromBytesInt_IgnoreEndianness(T, bytes, e) ==
    IF Len(bytes) < SizeOf(T) THEN Err("OutOfBounds")
    ELSE Ok(FromBeBytes(T, SubSeq(bytes, 1, SizeOf(T))), SizeOf(T))

\* impl TryFromBytes for T (integers)
TryFromBytesInt(T, bytes, e) ==
    IF Len(bytes) < SizeOf(T) THEN Err("OutOfBounds")
    ELSE LET array_bytes == SubSeq(bytes, 1, SizeOf(T))
         IN  Ok(IF e = "Big" THEN FromBeBytes(T, array_bytes)
                ELSE FromLeBytes(T, array_bytes),
                SizeOf(T))

\* impl ToBytes for T (integers)
ToBytesInt(T, v, e) == IF e = "Big" THEN ToBeBytes(T, v) ELSE ToLeBytes(T, v)

\* String::from_utf8: the well-formed byte sequences of UTF-8
Cont(b) == b >= 128 /\ b <= 191
RECURSIVE Utf8Valid(_)
Utf8Valid(s) ==
    IF s = <<>> THEN TRUE
    ELSE LET b == s[1]
             n == Len(s)
             Rest(k) == SubSeq(s, k + 1, n)
         IN  CASE b <= 127 -> Utf8Valid(Rest(1))
               [] b >= 194 /\ b <= 223 ->
                    n >= 2 /\ Cont(s[2]) /\ Utf8Valid(Rest(2))
               [] b >= 224 /\ b <= 239 ->
                    /\ n >= 3
                    /\ Cont(s[2]) /\ Cont(s[3])
                    /\ (b = 224 => s[2] >= 160)
                    /\ (b = 237 => s[2] <= 159)
                    /\ Utf8Valid(Rest(3))
               [] b >= 240 /\ b <= 244 ->
                    /\ n >= 4
                    /\ Cont(s[2]) /\ Cont(s[3]) /\ Cont(s[4])
                    /\ (b = 240 => s[2] >= 144)
                    /\ (b = 244 => s[2] <= 143)
                    /\ Utf8Valid(Rest(4))
               [] OTHER -> FALSE

\* the bytes before the first zero byte (all of them when there is none)
RECURSIVE UntilZero(_)
UntilZero(bytes) ==
    IF bytes = <<>> \/ bytes[1] = 0 THEN <<>>
    ELSE <<bytes[1]>> \o UntilZero(Tail(bytes))

\* a text decode that does not count the terminator
TryFromBytesString_NoTerminator(bytes) ==
    LET vec == UntilZero(bytes)
    IN  IF ~Utf8Valid(vec) THEN Err("StringFromBytes")
        ELSE Ok(vec, Len(vec))

\* impl TryFromBytes for String
TryFromBytesString(bytes) ==
    LET vec == UntilZero(bytes)
    IN  IF ~Utf8Valid(vec) THEN Err("StringFromBytes")
        ELSE Ok(vec, Len(vec) + 1)

\* impl ToBytes for String
ToBytesString(s) == s \o <<0>>

----------------------------------------------------------------------------
(* chomp.rs *)

Slice(o, l) == [off |-> o, len |-> l]
SliceBytes(s) == SubSeq(mem, s.off + 1, s.off + s.len)

\* Chomp::inner: ptr::read_unaligned of a T at the pointer, which is a load in
\* the byte order of the target the crate was built for
ChompInner(T, off) ==
    LET raw == SubSeq(mem, off + 1, off + SizeOf(T))
    IN  IF host = "Big" THEN FromBeBytes(T, raw) ELSE FromLeBytes(T, raw)

----------------------------------------------------------------------------
(* bytereader.rs *)

\* ByteReader::size, ByteReader::len, ByteReader::cursor.  The operations below
\* take the reader's cursor slice c as a parameter (self.cursor at the time of
\* the call), so that one operation can call another on what the first left.
size == buf.len
len == cursor.len
position(c) == buf.len - c.len
cursor_position == position(cursor)

NoCall == [op |-> "none", T |-> "-", n |-> 0, outcome |-> "none",
           val |-> <<>>, ekind |-> "none", ecursor |-> 0, follows |-> "-"]

Returned(op, T, n, val) ==
    [op |-> op, T |-> T, n |-> n, outcome |-> "ok",
     val |-> val, ekind |-> "none", ecursor |-> 0, follows |-> "-"]

Panicked(op, T, n) ==
    [op |-> op, T |-> T, n |-> n, outcome |-> "panic",
     val |-> <<>>, ekind |-> "none", ecursor |-> 0, follows |-> "-"]

\* an error that carries the remaining length instead of the position
err_remaining(c, op, T, n, kind) ==
    [op |-> op, T |-> T, n |-> n, outcome |-> "err",
     val |-> <<>>, ekind |-> kind, ecursor |-> c.len, follows |-> "-"]

\* ByteReader::err: the error carries self.cursor() at the time it is made
err(c, op, T, n, kind) ==
    [op |-> op, T |-> T, n |-> n, outcome |-> "err",
     val |-> <<>>, ekind |-> kind, ecursor |-> position(c), follows |-> "-"]

\* what a call leaves behind: the two slices and the returned value
After(b, c, r) == [buf |-> b, cursor |-> c, ret |-> r]

\* BufRead::consume: self.cursor = &self.cursor[amt..], which panics when
\* amt > self.cursor.len()
consume_in_range(c, amt) == amt <= c.len
consume(c, amt) == Slice(c.off + amt, c.len - amt)

\* a seek that refuses the end of the buffer
seek_strict(c, pos) ==
    IF pos >= buf.len THEN After(buf, c, err(c, "seek", "-", pos, "NoBytes"))
    ELSE After(buf, Slice(buf.off + pos, buf.len - pos),
               Returned("seek", "-", pos, <<>>))

\* ByteReader::seek
seek(c, pos) ==
    IF pos > buf.len THEN After(buf, c, err(c, "seek", "-", pos, "NoBytes"))
    ELSE After(buf, Slice(buf.off + pos, buf.len - pos),
               Returned("seek", "-", pos, <<>>))

\* the element a Chomp<T> made by peek_n stands for.  For the integers it is
\* what inner() loads.  A Chomp<String> points at size_of::<String>() raw buffer
\* bytes; it is kept as the handle (inner() on it would take those bytes for a
\* String's pointer, capacity and length).
Element(T, off) ==
    IF T = "String" THEN [chomp |-> "String", at |-> off] ELSE ChompInner(T, off)

\* ByteReader::peek_n
peek_n(c, T, n) ==
    IF c.len \div SizeOf(T) < n THEN err(c, "peek_n", T, n, "NoBytes")
    ELSE Returned("peek_n", T, n,
                  [i \in 1..n |-> Element(T, c.off + (i - 1) * SizeOf(T))])

\* a read_n that consumes the elements that fit before it reports the failure
read_n_partial(c, T, n) ==
    LET res == peek_n(c, T, n)
        fit == c.len \div SizeOf(T)
    IN  IF res.outcome # "ok"
        THEN After(buf, consume(c, fit * SizeOf(T)), [res EXCEPT !.op = "read_n"])
        ELSE After(buf, consume(c, n * SizeOf(T)), [res EXCEPT !.op = "read_n"])

\* ByteReader::read_n
read_n(c, T, n) ==
    LET res == peek_n(c, T, n)
        amt == n * SizeOf(T)
    IN  IF res.outcome # "ok" THEN After(buf, c, [res EXCEPT !.op = "read_n"])
        ELSE IF ~consume_in_range(c, amt) THEN After(buf, c, Panicked("read_n", T, n))
        ELSE After(buf, consume(c, amt), [res EXCEPT !.op = "read_n"])

\* ByteReader::read: read_n(1)?[0]
read(c, T) ==
    LET r == read_n(c, T, 1)
    IN  [r EXCEPT !.ret.op = "read"]

\* a peek that is a read
peek_consuming(c, T) == [read(c, T) EXCEPT !.ret.op = "peek"]

\* ByteReader::peek: peek_n(1)?[0]
peek(c, T) == After(buf, c, [peek_n(c, T, 1) EXCEPT !.op = "peek"])

\* ByteReader::read_string
read_string(c) ==
    LET d == TryFromBytesString(SliceBytes(c))
    IN  IF ~d.ok
        THEN After(buf, c, err(c, "read_string", "String", 0, "TryFromBytesError"))
        ELSE IF ~consume_in_range(c, d.size)
        THEN After(buf, c, Panicked("read_string", "String", 0))
        ELSE After(buf, consume(c, d.size), Returned("read_string", "String", 0, d.val))

\* `as usize` of the u32 length prefix.  A count of 2^31 or more (held as a
\* negative number, see the note on values) exceeds every slice length; UsizeHuge
\* stands for all of them.
UsizeHuge == 2147483647
AsUsize(v) == IF v < 0 THEN UsizeHuge ELSE v

\* a read_sized_vector that puts the cursor back when the elements fail
read_sized_vector_atomic(c, T) ==
    LET p == read(c, "u32")
    IN  IF p.ret.outcome # "ok"
        THEN After(buf, p.cursor, [p.ret EXCEPT !.op = "read_sized_vector", !.T = T])
        ELSE LET r == read_n(p.cursor, T, AsUsize(p.ret.val[1]))
             IN  After(buf, IF r.ret.outcome = "ok" THEN r.cursor ELSE c,
                       [r.ret EXCEPT !.op = "read_sized_vector"])

\* ByteReader::read_sized_vector
read_sized_vector(c, T) ==
    LET p == read(c, "u32")
    IN  IF p.ret.outcome # "ok"
        THEN After(buf, p.cursor, [p.ret EXCEPT !.op = "read_sized_vector", !.T = T])
        ELSE LET r == read_n(p.cursor, T, AsUsize(p.ret.val[1]))
             IN  After(buf, r.cursor, [r.ret EXCEPT !.op = "read_sized_vector"])

\* ByteReader::byte_size
byte_size(c, T) ==
    LET d == IF T = "String" THEN TryFromBytesString(SliceBytes(c))
             ELSE TryFromBytesInt(T, SliceBytes(c), endianness)
    IN  IF ~d.ok THEN After(buf, c, err(c, "byte_size", T, 0, "TryFromBytesError"))
        ELSE After(buf, c, Returned("byte_size", T, 0, <<d.size>>))

\* a read_remaining that asks for as many elements as there are bytes
read_remaining_bytes(c, T) ==
    LET r == read_n(c, T, c.len)
    IN  After(buf, r.cursor, [r.ret EXCEPT !.op = "read_remaining"])

\* ByteReader::read_remaining
read_remaining(c, T) ==
    LET r == read_n(c, T, c.len \div SizeOf(T))
    IN  After(buf, r.cursor, [r.ret EXCEPT !.op = "read_remaining"])

\* a rebase that narrows buf and leaves the cursor where it was
rebase_keep_cursor(c, pos) ==
    IF pos > buf.len THEN After(buf, c, Panicked("rebase", "-", pos))
    ELSE After(Slice(buf.off + pos, buf.len - pos), c,
               Returned("rebase", "-", pos, <<>>))

\* a rebase that counts pos from the cursor
rebase_from_cursor(c, pos) ==
    IF pos > c.len THEN After(buf, c, Panicked("rebase", "-", pos))
    ELSE LET b == Slice(c.off + pos, c.len - pos)
         IN  After(b, b, Returned("rebase", "-", pos, <<>>))

\* ByteReader::rebase: self.buf = &self.buf[pos..] panics when pos > self.buf.len()
rebase(c, pos) ==
    IF pos > buf.len THEN After(buf, c, Panicked("rebase", "-", pos))
    ELSE LET b == Slice(buf.off + pos, buf.len - pos)
         IN  After(b, b, Returned("rebase", "-", pos, <<>>))

\* a call made by the reader's owner; a panic ends the computation.  ret.follows
\* records that a read came right after a successful peek of the same type.
Alive == ret.outcome \notin {"panic", "absent"}

Follows(r) ==
    IF r.op = "read" /\ ret.op = "peek" /\ ret.outcome = "ok" /\ ret.T = r.T
    THEN "peek" ELSE "-"

Call(a) ==
    /\ Alive
    /\ buf' = a.buf
    /\ cursor' = a.cursor
    /\ ret' = [a.ret EXCEPT !.follows = Follows(a.ret)]
    /\ UNCHANGED <<mem, endianness, host, codecVars>>

\* no iterator has been made from the reader
NoIterator == [T |-> "-", start |-> 0, items |-> <<>>, last |-> "absent"]

\* a call on a reader that is not reading a writer's bytes back.  iter() takes
\* the reader by &'a mut for the rest of its lifetime: once an iterator exists
\* the owner can make no call of its own.
RCall(a) ==
    /\ it = NoIterator
    /\ Call(a)
    /\ UNCHANGED <<writerVars, rlog, it>>

\* the element types the reader's owner asks for: one of each width, one signed
ReaderTypes == {"u8", "i16", "u32"}

\* every offset of the current buffer, its end, and one past the end
Positions == 0..(buf.len + 1)
Counts == 0..MaxN

Read == \E T \in ReaderTypes : RCall(read(cursor, T))
Peek == \E T \in ReaderTypes : RCall(peek(cursor, T))
ReadN == \E T \in ReaderTypes, n \in Counts : RCall(read_n(cursor, T, n))
PeekN == \E T \in ReaderTypes, n \in Counts : RCall(After(buf, cursor, peek_n(cursor, T, n)))
ReadString == RCall(read_string(cursor))
Seek == \E pos \in Positions : RCall(seek(cursor, pos))
Rebase == \E pos \in Positions : RCall(rebase(cursor, pos))

\* the sequences over S of length at most k
SeqsUpTo(S, k) == UNION {[1..j -> S] : j \in 0..k}

Buffers == UNION {[1..k -> ByteAlphabet] : k \in 0..MaxLen}

\* ByteReader::new
new(b, e) ==
    /\ mem = b
    /\ buf = Slice(0, Len(b))
    /\ cursor = Slice(0, Len(b))
    /\ endianness = e
    /\ ret = NoCall
    /\ it = NoIterator

WriterIdle ==
    /\ wbuf = <<>>
    /\ wend = DefaultEndianness
    /\ wret = [op |-> "new", outcome |-> "ok", val |-> 0]
    /\ wlog = <<>>
    /\ rlog = <<>>

CodecIdle ==
    /\ cArg = <<>>
    /\ cRes = <<>>

InitReader ==
    /\ \E b \in Buffers \cup {ScenarioBuffer}, e \in Endianness : new(b, e)
    /\ host \in Endianness
    /\ WriterIdle
    /\ CodecIdle

NextReader ==
    \/ Read
    \/ Peek
    \/ ReadN
    \/ PeekN
    \/ ReadString
    \/ Seek
    \/ Rebase

SpecReader == InitReader /\ [][NextReader]_vars

\* the reader moved about its buffer: single reads and peeks, seek and rebase
NextSlices ==
    \/ Read
    \/ Peek
    \/ ReadString
    \/ Seek
    \/ Rebase

SpecSlices == InitReader /\ [][NextSlices]_vars

----------------------------------------------------------------------------
(* bytereader.rs: ByteReaderIterator *)

\* a next() that steps over one byte when the read fails
next_skipping(c, T) ==
    LET r == read(c, T)
    IN  IF r.ret.outcome = "ok" \/ c.len = 0 THEN r
        ELSE After(buf, consume(c, 1), r.ret)

\* ByteReaderIterator::next: self.buf.read::<T>().map(|v| v.inner()).ok()
next(c, T) == read(c, T)

\* ByteReader::iter
Iter ==
    /\ Alive
    /\ it = NoIterator
    /\ \E T \in ReaderTypes :
          it' = [T |-> T, start |-> len, items |-> <<>>, last |-> "new"]
    /\ UNCHANGED <<mem, buf, cursor, endianness, host, ret, writerVars, rlog, codecVars>>

\* one turn of the loop that drives the iterator: Some(value) of a successful
\* read, None of a failed one (the error is dropped)
IterNext ==
    /\ it # NoIterator
    /\ LET a == next(cursor, it.T)
       IN  /\ Call(a)
           /\ it' = IF a.ret.outcome = "ok"
                    THEN [it EXCEPT !.items = Append(@, a.ret.val[1]), !.last = "Some"]
                    ELSE [it EXCEPT !.last = "None"]
    /\ UNCHANGED <<writerVars, rlog>>

\* the owner may move the cursor before it hands the reader to the iterator
NextIter ==
    \/ Seek
    \/ Iter
    \/ IterNext

\* the loop calls next() again for as long as it is handed Some
SpecIter == InitReader /\ [][NextIter]_vars /\ WF_vars(IterNext)

----------------------------------------------------------------------------
(* bytereader.rs: the reader over length-prefixed data *)

\* the element types asked for here, and the counts up to the largest prefix
FrameTypes == {"u8", "u16"}
FrameCounts == 0..MaxCount

\* the bytes after the prefix: an ASCII byte and 0xFF (the prefix has the zeros)
BodyAlphabet == {1, 255}

Frame_Read == \E T \in FrameTypes : RCall(read(cursor, T))
Frame_Peek == \E T \in FrameTypes : RCall(peek(cursor, T))
Frame_ReadN == \E T \in FrameTypes, n \in FrameCounts : RCall(read_n(cursor, T, n))
Frame_PeekN ==
    \E T \in FrameTypes, n \in FrameCounts : RCall(After(buf, cursor, peek_n(cursor, T, n)))
ByteSize == \E T \in FrameTypes \cup {"String"} : RCall(byte_size(cursor, T))
ReadSizedVector == \E T \in FrameTypes : RCall(read_sized_vector(cursor, T))
ReadRemaining == \E T \in FrameTypes : RCall(read_remaining(cursor, T))

\* a buffer that starts with a count in the reader's Endianness
InitFrames ==
    /\ \E k \in FrameCounts, e \in Endianness, body \in SeqsUpTo(BodyAlphabet, MaxBody) :
          new(ToBytesInt("u32", k, e) \o body, e)
    /\ host \in Endianness
    /\ WriterIdle
    /\ CodecIdle

NextFrames ==
    \/ Frame_Read
    \/ Frame_Peek
    \/ Frame_ReadN
    \/ Frame_PeekN
    \/ ReadString
    \/ ByteSize
    \/ ReadSizedVector
    \/ ReadRemaining
    \/ Seek
    \/ Rebase

SpecFrames == InitFrames /\ [][NextFrames]_vars

----------------------------------------------------------------------------
(* bytereader.rs: the reader over null-terminated text *)

\* 24 bytes of text, "A" and its terminator twelve times over: room for one
\* String-sized element
TextBuffer == [i \in 1..SizeOf("String") |-> IF i % 2 = 1 THEN 65 ELSE 0]

\* "A", its terminator and 0xFF
TextAlphabet == {0, 65, 255}

ReadN_String == \E n \in Counts : RCall(read_n(cursor, "String", n))

InitText ==
    /\ \E b \in {TextBuffer} \cup SeqsUpTo(TextAlphabet, MaxLen), e \in Endianness :
          new(b, e)
    /\ host \in Endianness
    /\ WriterIdle
    /\ CodecIdle

NextText ==
    \/ ReadN
    \/ ReadN_String
    \/ ReadString
    \/ Seek

SpecText == InitText /\ [][NextText]_vars

----------------------------------------------------------------------------
(* bytewriter.rs *)

\* the Strings handed to the writer: valid UTF-8, a zero byte allowed inside
Strings == {s \in SeqsUpTo(ByteAlphabet, MaxStr) : Utf8Valid(s)}

\* the integer types and values handed to the writer (10 and -14 are those of
\* test_bytewriter)
WriterTypes == {"u16", "i32"}
WriterValues(T) == IF T = "u16" THEN {10, 258} ELSE {-14, 1}

\* Vec::append(&mut self, other: &mut Vec): moves every element of other to the
\* end of self and leaves other empty
VecAppend(dst, other) == [dst |-> dst \o other, other |-> <<>>]

\* ByteWriter::append: the returned buf.len() is read after Vec::append
append(w, bytes) ==
    LET a == VecAppend(w, bytes)
    IN  [buf |-> a.dst, ret |-> Len(a.other)]

RECURSIVE AppendAll(_, _)
AppendAll(w, encs) ==
    IF encs = <<>> THEN w
    ELSE AppendAll(append(w, encs[1]).buf, Tail(encs))

\* T::to_bytes(endianness) of a value handed to the writer
ToBytes(T, v, e) == IF T = "String" THEN ToBytesString(v) ELSE ToBytesInt(T, v, e)

\* ByteWriter::write_sized_vec
write_sized_vec(w, T, data, e) ==
    LET prefixed == append(w, ToBytesInt("u32", Len(data), e)).buf
        elems == [i \in 1..Len(data) |-> ToBytes(T, data[i], e)]
    IN  [buf |-> AppendAll(prefixed, elems), ret |-> Len(data) * SizeOf(T) + 4]

NoReader == [NoCall EXCEPT !.outcome = "absent"]
Writing == ret.outcome = "absent"

IntItem(T, v) == [kind |-> "int", T |-> T, v |-> <<v>>]
StrItem(str) == [kind |-> "str", T |-> "String", v |-> str]
VecItem(T, data) == [kind |-> "svec", T |-> T, v |-> data]

WCall(op, r, item) ==
    /\ Writing
    /\ wret.outcome # "panic"
    /\ Len(wlog) < MaxItems
    /\ Len(r.buf) <= MaxWLen
    /\ wbuf' = r.buf
    /\ wret' = [op |-> op, outcome |-> "ok", val |-> r.ret]
    /\ wlog' = Append(wlog, item)
    /\ UNCHANGED <<wend, rlog, readerVars, codecVars>>

Append_Int ==
    \E T \in WriterTypes : \E v \in WriterValues(T) :
        WCall("append", append(wbuf, ToBytesInt(T, v, wend)), IntItem(T, v))

Append_String ==
    \E str \in Strings :
        WCall("append", append(wbuf, ToBytesString(str)), StrItem(str))

WriteSizedVec ==
    \E T \in WriterTypes : \E data \in SeqsUpTo(WriterValues(T), MaxVec) :
        WCall("write_sized_vec", write_sized_vec(wbuf, T, data, wend), VecItem(T, data))

\* ByteReader::new(writer.buf().as_slice(), e): the reader reads a copy of the
\* WriteBuffer, which later writes do not reach
NewFromWriter ==
    /\ Writing
    /\ wlog # <<>>
    /\ \E e \in Endianness :
          /\ mem' = wbuf
          /\ buf' = Slice(0, Len(wbuf))
          /\ cursor' = Slice(0, Len(wbuf))
          /\ endianness' = e
          /\ ret' = NoCall
    /\ UNCHANGED <<host, it, rlog, writerVars, codecVars>>

\* reading back, in the order written, with the call that matches each value
NextItem == wlog[Len(rlog) + 1]

ReadBack(a) ==
    /\ Call(a)
    /\ rlog' = Append(rlog, [outcome |-> a.ret.outcome, val |-> a.ret.val])
    /\ UNCHANGED <<writerVars, it>>

ReadBack_Int ==
    /\ Len(rlog) < Len(wlog)
    /\ NextItem.kind = "int"
    /\ ReadBack(read(cursor, NextItem.T))

ReadBack_String ==
    /\ Len(rlog) < Len(wlog)
    /\ NextItem.kind = "str"
    /\ ReadBack(read_string(cursor))

ReadBack_SizedVec ==
    /\ Len(rlog) < Len(wlog)
    /\ NextItem.kind = "svec"
    /\ ReadBack(read_sized_vector(cursor, NextItem.T))

\* ByteWriter::new
InitWriter ==
    /\ wbuf = <<>>
    /\ wend \in Endianness
    /\ wret = [op |-> "new", outcome |-> "ok", val |-> 0]
    /\ wlog = <<>>
    /\ rlog = <<>>
    /\ host \in Endianness
    /\ mem = <<>>
    /\ buf = Slice(0, 0)
    /\ cursor = Slice(0, 0)
    /\ endianness = DefaultEndianness
    /\ ret = NoReader
    /\ it = NoIterator
    /\ CodecIdle

NextWriter ==
    \/ Append_Int
    \/ Append_String
    \/ WriteSizedVec
    \/ NewFromWriter
    \/ ReadBack_Int
    \/ ReadBack_String
    \/ ReadBack_SizedVec

SpecWriter == InitWriter /\ [][NextWriter]_vars

----------------------------------------------------------------------------
(* bytewriter.rs: the writer on its own, appended to and patched in place *)

\* a write that makes room for the value at pos instead of overwriting
write_inserting(w, bytes, pos) ==
    IF pos > Len(w) THEN [buf |-> w, ret |-> 0, outcome |-> "panic"]
    ELSE [buf |-> SubSeq(w, 1, pos) \o bytes \o SubSeq(w, pos + 1, Len(w)),
          ret |-> Len(bytes), outcome |-> "ok"]

\* ByteWriter::write: the loop stores buf[i] into self.buf[pos + i] for
\* i = 0, 1, ...; the first index at or past self.buf.len() panics, after the
\* bytes before it were stored
write(w, bytes, pos) ==
    LET sz == Len(bytes)
        fits == pos + sz <= Len(w)
        stored == IF fits THEN sz
                  ELSE IF pos >= Len(w) THEN 0
                  ELSE Len(w) - pos
    IN  [buf |-> [j \in 1..Len(w) |->
                     IF j > pos /\ j <= pos + stored THEN bytes[j - pos] ELSE w[j]],
         ret |-> IF fits THEN sz ELSE 0,
         outcome |-> IF fits THEN "ok" ELSE "panic"]

\* ByteWriter::write_vec
write_vec(w, T, data, e) ==
    [buf |-> AppendAll(w, [i \in 1..Len(data) |-> ToBytes(T, data[i], e)]),
     ret |-> Len(data) * SizeOf(T)]

\* a call that returns a plain usize
Done(r) == [buf |-> r.buf, ret |-> r.ret, outcome |-> "ok"]

\* the values handed to the writer: 10 and 258 as u16, -14 as i32, "" and a
\* one-character String
PatchTypes == {"u16", "i32", "String"}
PatchValues(T) ==
    CASE T = "u16" -> {10, 258}
      [] T = "i32" -> {-14}
      [] T = "String" -> {<<>>, <<1>>}

PatchItem(op, T, v, pos) == [op |-> op, T |-> T, v |-> v, pos |-> pos]

\* a call on a writer whose bytes are not read back; wlog keeps the arguments
\* of the latest call only
PCall(r, item) ==
    /\ Writing
    /\ wret.outcome # "panic"
    /\ Len(r.buf) <= MaxPLen
    /\ wbuf' = r.buf
    /\ wret' = [op |-> item.op, outcome |-> r.outcome, val |-> r.ret]
    /\ wlog' = <<item>>
    /\ UNCHANGED <<wend, rlog, readerVars, codecVars>>

Append_Value ==
    \E T \in PatchTypes : \E v \in PatchValues(T) :
        PCall(Done(append(wbuf, ToBytes(T, v, wend))), PatchItem("append", T, v, 0))

\* every offset of the WriteBuffer, its end, and one past the end
Write ==
    \E T \in PatchTypes : \E v \in PatchValues(T), pos \in 0..(Len(wbuf) + 1) :
        PCall(write(wbuf, ToBytes(T, v, wend), pos), PatchItem("write", T, v, pos))

WriteVec ==
    \E T \in PatchTypes : \E data \in SeqsUpTo(PatchValues(T), MaxVec) :
        PCall(Done(write_vec(wbuf, T, data, wend)), PatchItem("write_vec", T, data, 0))

WriteSizedVec_Values ==
    \E T \in PatchTypes : \E data \in SeqsUpTo(PatchValues(T), MaxVec) :
        PCall(Done(write_sized_vec(wbuf, T, data, wend)),
              PatchItem("write_sized_vec", T, data, 0))

NextPatch ==
    \/ Append_Value
    \/ Write
    \/ WriteVec
    \/ WriteSizedVec_Values

SpecPatch == InitWriter /\ [][NextPatch]_vars

\* the writer handed vectors only, up to the length of SpecWriter's buffers
VCall(r, item) ==
    /\ Writing
    /\ Len(r.buf) <= MaxWLen
    /\ wbuf' = r.buf
    /\ wret' = [op |-> item.op, outcome |-> r.outcome, val |-> r.ret]
    /\ wlog' = <<item>>
    /\ UNCHANGED <<wend, rlog, readerVars, codecVars>>

Vecs_WriteVec ==
    \E T \in PatchTypes : \E data \in SeqsUpTo(PatchValues(T), MaxVec) :
        VCall(Done(write_vec(wbuf, T, data, wend)), PatchItem("write_vec", T, data, 0))

Vecs_WriteSizedVec ==
    \E T \in PatchTypes : \E data \in SeqsUpTo(PatchValues(T), MaxVec) :
        VCall(Done(write_sized_vec(wbuf, T, data, wend)),
              PatchItem("write_sized_vec", T, data, 0))

NextVecs ==
    \/ Vecs_WriteVec
    \/ Vecs_WriteSizedVec

SpecVecs == InitWriter /\ [][NextVecs]_vars

----------------------------------------------------------------------------
(* The conversions on their own: a value is encoded, the bytes are handed on
   exactly, cut short or followed by further bytes, and decoded *)

\* 0, 1, the largest and the smallest value of each type, -1 of the signed
\* ones, and a value whose bytes all differ.  u32 values from 2^31 on are held
\* as v - 2^32: -1 is 4294967295, -2147483647 - 1 is 2147483648.
CodecValues(T) ==
    CASE T = "u8" -> {0, 1, 255}
      [] T = "i8" -> {0, 1, 127, -128, -1}
      [] T = "u16" -> {0, 1, 65535, 258}
      [] T = "i16" -> {0, 1, 32767, -32768, -1, 258}
      [] T = "u32" -> {0, 1, 2147483647, -2147483647 - 1, -1, 16909060}
      [] T = "i32" -> {0, 1, 2147483647, -2147483647 - 1, -1, 16909060, -14}

\* "A", the two bytes of U+00E9, and zero
CodecStrings == {str \in SeqsUpTo({0, 65, 195, 169}, MaxStr + 1) : Utf8Valid(str)}

Tails == SeqsUpTo({0, 65, 255}, MaxTail)

\* bytes handed to a decoder as they are: text with and without its terminator,
\* and enough bytes for the widest integer
RawInputs == SeqsUpTo(TextAlphabet, MaxLen + 1)

\* T::try_from_bytes(bytes, endianness)
TryFromBytes(T, bytes, e) ==
    IF T = "String" THEN TryFromBytesString(bytes) ELSE TryFromBytesInt(T, bytes, e)

InitCodec ==
    /\ \/ \E T \in IntTypes : \E v \in CodecValues(T), e \in Endianness,
                                 k \in 0..SizeOf(T), t \in Tails :
             /\ k > 0 => t = <<>>
             /\ cArg = [kind |-> "int", T |-> T, v |-> <<v>>, e |-> e,
                        cut |-> k, tail |-> t]
       \/ \E str \in CodecStrings, e \in Endianness, t \in Tails :
             cArg = [kind |-> "str", T |-> "String", v |-> str, e |-> e,
                     cut |-> 0, tail |-> t]
       \/ \E T \in IntTypes \cup {"String"}, bytes \in RawInputs, e \in Endianness :
             cArg = [kind |-> "raw", T |-> T, v |-> bytes, e |-> e,
                     cut |-> 0, tail |-> <<>>]
    /\ cRes = [stage |-> "input", bytes |-> <<>>, dec |-> Err("none")]
    /\ host \in Endianness
    /\ new(<<>>, DefaultEndianness)
    /\ WriterIdle

\* the bytes handed to the decoder
Supplied(bytes) == SubSeq(bytes, 1, Len(bytes) - cArg.cut) \o cArg.tail

Encode_Int ==
    /\ cArg.kind = "int"
    /\ cRes.stage = "input"
    /\ cRes' = [cRes EXCEPT !.stage = "encoded",
                            !.bytes = ToBytesInt(cArg.T, cArg.v[1], cArg.e)]
    /\ UNCHANGED <<cArg, readerVars, writerVars, rlog>>

Decode_Int ==
    /\ cArg.kind = "int"
    /\ cRes.stage = "encoded"
    /\ cRes' = [cRes EXCEPT !.stage = "decoded",
                            !.dec = TryFromBytesInt(cArg.T, Supplied(cRes.bytes), cArg.e)]
    /\ UNCHANGED <<cArg, readerVars, writerVars, rlog>>

Encode_String ==
    /\ cArg.kind = "str"
    /\ cRes.stage = "input"
    /\ cRes' = [cRes EXCEPT !.stage = "encoded", !.bytes = ToBytesString(cArg.v)]
    /\ UNCHANGED <<cArg, readerVars, writerVars, rlog>>

Decode_String ==
    /\ cArg.kind = "str"
    /\ cRes.stage = "encoded"
    /\ cRes' = [cRes EXCEPT !.stage = "decoded",
                            !.dec = TryFromBytesString(Supplied(cRes.bytes))]
    /\ UNCHANGED <<cArg, readerVars, writerVars, rlog>>

\* a decode of bytes that no encoder produced
Decode_Raw ==
    /\ cArg.kind = "raw"
    /\ cRes.stage = "input"
    /\ cRes' = [cRes EXCEPT !.stage = "decoded",
                            !.bytes = cArg.v,
                            !.dec = TryFromBytes(cArg.T, Supplied(cArg.v), cArg.e)]
    /\ UNCHANGED <<cArg, readerVars, writerVars, rlog>>

NextCodec ==
    \/ Encode_Int
    \/ Decode_Int
    \/ Encode_String
    \/ Decode_String
    \/ Decode_Raw

SpecCodec == InitCodec /\ [][NextCodec]_vars

----------------------------------------------------------------------------
(* Properties of the reader *)

\* the bytes of mem from offset off to the end of the cursor slice
BytesFrom(off) == SubSeq(mem, off + 1, cursor.off + cursor.len)

\* C1: after any sequence of reader calls, successful or failed,
\* cursor() + len() == size() and 0 <= len() <= size().
C1_CursorInvariant ==
    /\ cursor_position + len = size
    /\ 0 <= len
    /\ len <= size
    /\ 0 <= cursor_position

\* a failed read_string after a rebase and a consuming read
C1_Witness ==
    /\ ret.op = "read_string"
    /\ ret.outcome = "err"
    /\ buf.off > 0
    /\ cursor_position > 0
    /\ len > 0

\* C2: read_n::<T>(n) with fewer than n * size(T) bytes remaining returns an
\* error and leaves the cursor where it was.
C2_ReadNAtomic ==
    [][(ret'.op = "read_n" /\ len < ret'.n * SizeOf(ret'.T))
        => /\ ret'.outcome = "err"
           /\ cursor' = cursor
           /\ buf' = buf
           /\ cursor_position' = cursor_position]_vars

\* a failed read_n with room for n - 1 elements but not for n
C2_Witness ==
    /\ ret.op = "read_n"
    /\ ret.outcome = "err"
    /\ ret.n >= 2
    /\ len >= (ret.n - 1) * SizeOf(ret.T)
    /\ len < ret.n * SizeOf(ret.T)
    /\ cursor_position > 0

\* C3: peek and peek_n leave cursor(), len() and size() as they were, whether
\* they succeed or fail; a read right after a successful peek of the same type
\* returns the same value and advances the cursor by size(T).
C3_PeekFrame ==
    [][/\ ret'.op \in {"peek", "peek_n"}
          => /\ cursor' = cursor
             /\ buf' = buf
             /\ cursor_position' = cursor_position
             /\ len' = len
             /\ size' = size
       /\ (ret.op = "peek" /\ ret.outcome = "ok" /\ ret'.op = "read" /\ ret'.T = ret.T)
          => /\ ret'.outcome = "ok"
             /\ ret'.val = ret.val
             /\ cursor_position' = cursor_position + SizeOf(ret.T)
             /\ len' = len - SizeOf(ret.T)]_vars

\* a read of a multi-byte type that came right after a successful peek of it,
\* away from the start of the buffer
C3_Witness ==
    /\ ret.op = "read"
    /\ ret.follows = "peek"
    /\ ret.outcome = "ok"
    /\ SizeOf(ret.T) > 1
    /\ cursor_position > SizeOf(ret.T)

\* C4: a successful read::<T>() returns the value the size(T) bytes at the
\* pre-call cursor encode (in the reader's Endianness) and advances the cursor
\* by size(T); on the little-endian buffer [1,1,1,12,0,0,0,0], after
\* read_n::<u8>(3), read::<u32>() yields 12 and leaves len() == 0.
C4_ReadDecodesAtCursor ==
    [][/\ (ret'.op = "read" /\ ret'.outcome = "ok")
          => /\ ret'.val = <<TryFromBytesInt(ret'.T, SliceBytes(cursor), endianness).val>>
             /\ cursor_position' = cursor_position + SizeOf(ret'.T)
       /\ (/\ mem = ScenarioBuffer /\ endianness = "Little" /\ buf.off = 0
           /\ ret.op = "read_n" /\ ret.T = "u8" /\ ret.n = 3 /\ cursor_position = 3
           /\ ret'.op = "read" /\ ret'.T = "u32")
          => /\ ret.val = <<1, 1, 1>>
             /\ ret'.val = <<12>>
             /\ len' = 0]_vars

\* C5: every value read, peek, read_n and peek_n return is the value T's
\* try_from_bytes decodes at that element's offset under the reader's Endianness.
C5_ReadsHonorEndianness ==
    (ret.op \in {"read", "peek", "read_n", "peek_n"} /\ ret.outcome = "ok")
    => LET count == Len(ret.val)
           start == IF ret.op \in {"read", "read_n"}
                    THEN cursor.off - count * SizeOf(ret.T)
                    ELSE cursor.off
       IN  \A i \in 1..count :
              ret.val[i] =
                  TryFromBytesInt(ret.T, BytesFrom(start + (i - 1) * SizeOf(ret.T)),
                                  endianness).val

\* C13: seek(pos) succeeds exactly when pos <= size(), pos == size() included
\* (which leaves len() == 0), and then cursor() == pos; with pos > size() it
\* returns an error and leaves the cursor where it was.  seek never changes
\* size() or the buffer, so every offset in 0..=size() stays reachable.
C13_SeekContract ==
    [][ret'.op = "seek"
        => /\ buf' = buf
           /\ size' = size
           /\ mem' = mem
           /\ IF ret'.n <= size
              THEN /\ ret'.outcome = "ok"
                   /\ cursor_position' = ret'.n
                   /\ len' = size - ret'.n
                   /\ ret'.n = size => len' = 0
              ELSE /\ ret'.outcome = "err"
                   /\ ret'.ekind = "NoBytes"
                   /\ cursor' = cursor]_vars

\* a seek to the very end of a rebased, non-empty buffer
C13_Witness ==
    /\ ret.op = "seek"
    /\ ret.outcome = "ok"
    /\ ret.n = size
    /\ len = 0
    /\ size > 0
    /\ buf.off > 0

\* C14: rebase(p) with p <= size() discards the p bytes before offset p of the
\* buffer wherever the cursor is: afterwards cursor() == 0, size() is the old
\* size() - p and the byte at offset i is the one formerly at p + i.  No later
\* call widens the buffer again: size() never increases, the buffer keeps its
\* end, the cursor stays inside it, seek is checked against the current size(),
\* and every value a call returns is read at or after the cursor.
C14_RebaseNarrows ==
    [][/\ (ret'.op = "rebase" /\ ret'.n <= size)
          => /\ ret'.outcome = "ok"
             /\ cursor_position' = 0
             /\ cursor' = buf'
             /\ size' = size - ret'.n
             /\ SliceBytes(buf') = SubSeq(SliceBytes(buf), ret'.n + 1, size)
       /\ size' <= size
       /\ buf'.off >= buf.off
       /\ buf'.off + buf'.len = buf.off + buf.len
       /\ cursor'.off >= buf'.off
       /\ cursor'.off + cursor'.len = buf'.off + buf'.len
       /\ mem' = mem
       /\ ret'.op = "seek" => (ret'.outcome = "ok" <=> ret'.n <= size)
       /\ (ret'.op \in {"read", "peek", "read_n", "peek_n"} /\ ret'.outcome = "ok")
          => /\ cursor.off >= buf.off
             /\ \A i \in 1..Len(ret'.val) :
                   ret'.val[i] = ChompInner(ret'.T, cursor.off + (i - 1) * SizeOf(ret'.T))
       /\ (ret'.op = "read_string" /\ ret'.outcome = "ok")
          => ret'.val = UntilZero(SliceBytes(cursor))]_vars

\* a second rebase past the first byte of an already narrowed buffer, with
\* bytes left
C14_Witness ==
    /\ ret.op = "rebase"
    /\ ret.outcome = "ok"
    /\ ret.n > 0
    /\ buf.off > ret.n
    /\ size > 0
    /\ cursor_position = 0

----------------------------------------------------------------------------
(* Properties of the reader over text and over length-prefixed data *)

\* n Strings decoded one after the other, each starting where the one before
\* ended: the values and the bytes used, or a failure
RECURSIVE DecodeChain(_, _)
DecodeChain(bytes, n) ==
    IF n = 0 THEN [ok |-> TRUE, vals |-> <<>>, used |-> 0]
    ELSE LET d == TryFromBytesString(bytes)
         IN  IF ~d.ok \/ d.size > Len(bytes)
             THEN [ok |-> FALSE, vals |-> <<>>, used |-> 0]
             ELSE LET r == DecodeChain(SubSeq(bytes, d.size + 1, Len(bytes)), n - 1)
                  IN  [ok |-> r.ok, vals |-> <<d.val>> \o r.vals, used |-> d.size + r.used]

\* C15: read_n::<T>(n) decodes T n times at chained offsets and on success
\* advances the cursor by the sum of the consumed lengths: n * size(T) for an
\* integer T; for T = String the n Strings are decoded one after the other and
\* the cursor advances by the sum of (content length + 1).
C15_ReadNChains ==
    [][ret'.op = "read_n"
        => IF ret'.T = "String"
           THEN LET d == DecodeChain(SliceBytes(cursor), ret'.n)
                IN  /\ d.ok => ret'.outcome = "ok"
                    /\ ret'.outcome = "ok"
                       => /\ Len(ret'.val) = ret'.n
                          /\ cursor_position' = cursor_position + d.used
                          /\ ret'.val = d.vals
           ELSE ret'.outcome = "ok"
                => /\ Len(ret'.val) = ret'.n
                   /\ \A i \in 1..ret'.n :
                         ret'.val[i] =
                             ChompInner(ret'.T, cursor.off + (i - 1) * SizeOf(ret'.T))
                   /\ cursor_position' = cursor_position + ret'.n * SizeOf(ret'.T)]_vars

\* C16: read_sized_vector::<T>() where the next 4 bytes encode the count k in
\* the reader's Endianness and at least k * size(T) bytes follow returns the k
\* elements decoded one after the other from 4 bytes past the pre-call position
\* and advances the cursor by 4 + k * size(T); with fewer than 4 bytes left it
\* fails and leaves the cursor where it was.
C16_SizedVectorReads ==
    [][ret'.op = "read_sized_vector"
        => LET T == ret'.T
               p == TryFromBytesInt("u32", SliceBytes(cursor), endianness)
               k == AsUsize(p.val)
           IN  /\ len < 4 => (ret'.outcome = "err" /\ cursor' = cursor)
               /\ (p.ok /\ k <= (len - 4) \div SizeOf(T))
                  => /\ ret'.outcome = "ok"
                     /\ Len(ret'.val) = k
                     /\ cursor_position' = cursor_position + 4 + k * SizeOf(T)
                     /\ \A i \in 1..k :
                           ret'.val[i] =
                               TryFromBytesInt(T, BytesFrom(cursor.off + 4 + (i - 1) * SizeOf(T)),
                                               endianness).val]_vars

\* C17: read_remaining::<T>() for an integer T never fails: it returns the
\* floor(len() / size(T)) elements read_n would return from there and leaves
\* len() at the old len() mod size(T), which is 0 for a single-byte T.
C17_ReadRemaining ==
    [][ret'.op = "read_remaining"
        => LET T == ret'.T
               n == len \div SizeOf(T)
               r == read_n(cursor, T, n)
           IN  /\ ret'.outcome = "ok"
               /\ Len(ret'.val) = n
               /\ ret'.val = r.ret.val
               /\ cursor' = r.cursor
               /\ len' = len % SizeOf(T)
               /\ SizeOf(T) = 1 => len' = 0]_vars

\* two u16 read from five remaining bytes, one byte left over
C17_Witness ==
    /\ ret.op = "read_remaining"
    /\ ret.T = "u16"
    /\ ret.outcome = "ok"
    /\ Len(ret.val) = 2
    /\ len = 1

ReaderOperations ==
    {"read", "peek", "read_n", "peek_n", "read_string", "byte_size",
     "read_sized_vector", "read_remaining", "seek", "rebase"}

\* C18: every reader operation either succeeds or returns an error to the
\* caller, whatever the buffer, the cursor and the arguments: none panics.
C18_NoPanic ==
    ret.op \in ReaderOperations => ret.outcome \in {"ok", "err"}

\* C19: when read_sized_vector reads its 4-byte prefix and the read_n of that
\* many elements then fails for lack of bytes, the call returns an error and
\* the cursor is left exactly 4 bytes past where it was.
C19_PrefixStaysConsumed ==
    [][(/\ ret'.op = "read_sized_vector"
        /\ len >= 4
        /\ AsUsize(ChompInner("u32", cursor.off)) > (len - 4) \div SizeOf(ret'.T))
        => /\ ret'.outcome = "err"
           /\ ret'.ekind = "NoBytes"
           /\ cursor_position' = cursor_position + 4
           /\ len' = len - 4
           /\ buf' = buf]_vars

\* a count of two or more read, with bytes after it but not enough of them
C19_Witness ==
    /\ ret.op = "read_sized_vector"
    /\ ret.outcome = "err"
    /\ ret.n >= 2
    /\ cursor_position >= 4
    /\ len > 0
    /\ len < ret.n * SizeOf(ret.T)

\* C20: the cursor field of every error a reader operation returns is cursor()
\* as observed right after the failed call; for a failed seek(pos) that is the
\* unchanged position, not pos.
C20_ErrorCursor ==
    [][ret'.outcome = "err"
        => /\ ret'.ecursor = cursor_position'
           /\ ret'.op = "seek" => (ret'.ecursor = cursor_position /\ ret'.ecursor # ret'.n)]_vars

\* a failed seek on a rebased buffer, from a cursor that is not at its start
C20_Witness ==
    /\ ret.op = "seek"
    /\ ret.outcome = "err"
    /\ ret.ecursor > 0
    /\ buf.off > 0
    /\ len > 0

----------------------------------------------------------------------------
(* Properties of the iterator *)

\* C21: iterating with iter::<T>() ends on every buffer: next() yields, in
\* order, the values successive read::<T>() calls return, floor(len() / size(T))
\* of them counted from the len() at iter(), and None from then on; the failed
\* read that ends the iteration consumes nothing.
C21_IterTerminates ==
    /\ [](it # NoIterator
          => /\ Len(it.items) * SizeOf(it.T) + len = it.start
             /\ Len(it.items) <= it.start \div SizeOf(it.T)
             /\ it.last = "None"
                => /\ Len(it.items) = it.start \div SizeOf(it.T)
                   /\ len = it.start % SizeOf(it.T))
    /\ [][/\ (it # NoIterator /\ it' # it)
             => LET r == read(cursor, it.T)
                IN  /\ it'.last = IF r.ret.outcome = "ok" THEN "Some" ELSE "None"
                    /\ it'.last = "Some"
                       => /\ it'.items = Append(it.items, r.ret.val[1])
                          /\ cursor' = r.cursor
                    /\ it'.last = "None"
                       => /\ it'.items = it.items
                          /\ cursor' = cursor
          /\ it.last = "None" => (it'.last = "None" /\ cursor' = cursor)]_vars
    /\ (it # NoIterator) ~> (it.last = "None")

\* an iteration of i16 begun past the start of the buffer that yielded two or
\* more values and ended with one byte left over
C21_Witness ==
    /\ it.T = "i16"
    /\ it.last = "None"
    /\ Len(it.items) >= 2
    /\ it.start < size
    /\ len = 1

----------------------------------------------------------------------------
(* Properties of the writer read back *)

ZeroFree(str) == \A i \in 1..Len(str) : str[i] # 0

\* the length of the encoding of a value handed to append
EncodedLen(item) ==
    IF item.kind = "int" THEN Len(ToBytesInt(item.T, item.v[1], wend))
    ELSE Len(ToBytesString(item.v))

\* C6: write_sized_vec(v) on an empty writer, then read_sized_vector on the
\* writer's bytes by a reader of the same Endianness, returns v and leaves
\* len() == 0.
C6_SizedVecSymmetry ==
    (/\ ~Writing
     /\ endianness = wend
     /\ Len(wlog) = 1
     /\ wlog[1].kind = "svec"
     /\ Len(rlog) = 1)
    => /\ rlog[1].outcome = "ok"
       /\ rlog[1].val = wlog[1].v
       /\ len = 0

\* C7: with writer and reader both of Endianness::default(), integers and
\* Strings without a zero byte appended and then read back in the same order
\* with read::<T>() and read_string() come back unchanged.
C7_WriterReaderRoundTrip ==
    (/\ ~Writing
     /\ wend = DefaultEndianness
     /\ endianness = DefaultEndianness
     /\ \A i \in 1..Len(wlog) :
           \/ wlog[i].kind = "int"
           \/ wlog[i].kind = "str" /\ ZeroFree(wlog[i].v))
    => \A i \in 1..Len(rlog) :
          /\ rlog[i].outcome = "ok"
          /\ rlog[i].val = wlog[i].v

\* C10: append returns the number of bytes written: the length of the value's
\* encoding, which is the amount the WriteBuffer grew by.
C10_AppendReturnsWritten ==
    [][(wret'.op = "append" /\ Len(wlog') = Len(wlog) + 1)
        => /\ wret'.val = Len(wbuf') - Len(wbuf)
           /\ wret'.val = EncodedLen(wlog'[Len(wlog')])]_vars

----------------------------------------------------------------------------
(* Properties of the writer on its own *)

\* the encoding the latest call was handed (append, write)
LastEncoding == ToBytes(wlog'[1].T, wlog'[1].v, wend)
Growing == {"append", "write_vec", "write_sized_vec"}

\* C11: write(value, offset) with offset + len(encoded value) > len(WriteBuffer)
\* returns an error result and leaves the WriteBuffer as it was: same length,
\* same bytes, no prefix of the encoding stored.
C11_WriteFailsCleanly ==
    [][(wret'.op = "write" /\ wlog'[1].pos + Len(LastEncoding) > Len(wbuf))
        => /\ wret'.outcome = "err"
           /\ wbuf' = wbuf]_vars

\* C12: over any sequence of writer calls the length of the WriteBuffer never
\* decreases and grows only by append, write_vec and write_sized_vec; an
\* in-range write leaves the length as it was and changes only the bytes in
\* [offset, offset + len(encoded)); the growing calls leave the old contents
\* as a prefix of the new.
C12_WriterFrame ==
    [][/\ Len(wbuf') >= Len(wbuf)
       /\ Len(wbuf') > Len(wbuf) => wret'.op \in Growing
       /\ (wret'.op = "write" /\ wlog'[1].pos + Len(LastEncoding) <= Len(wbuf))
          => /\ Len(wbuf') = Len(wbuf)
             /\ \A j \in 1..Len(wbuf) :
                   (j <= wlog'[1].pos \/ j > wlog'[1].pos + Len(LastEncoding))
                   => wbuf'[j] = wbuf[j]
       /\ wret'.op \in Growing => SubSeq(wbuf', 1, Len(wbuf)) = wbuf]_vars

\* an in-range write of a two-byte value into the middle of a four-byte buffer,
\* which changed both bytes
C12_Witness ==
    /\ wret.op = "write"
    /\ wret.outcome = "ok"
    /\ wret.val = 2
    /\ wlog[1].pos = 1
    /\ Len(wbuf) = 4
    /\ wbuf[1] = 0 /\ wbuf[4] = 0
    /\ wbuf[2] = 10

\* the bytes the encodings of the values take, one after the other
RECURSIVE EncodedSum(_, _, _)
EncodedSum(T, data, e) ==
    IF data = <<>> THEN 0
    ELSE Len(ToBytes(T, data[1], e)) + EncodedSum(T, Tail(data), e)

\* C23: write_vec(values) returns the number of bytes the WriteBuffer grew by,
\* the sum of the encoded lengths of the values, and write_sized_vec(values)
\* returns that sum plus 4 for the length prefix, for every element type,
\* String (content length + 1 per element) included.
C23_VecReturnsWritten ==
    [][/\ wret'.op = "write_vec"
          => /\ wret'.val = Len(wbuf') - Len(wbuf)
             /\ wret'.val = EncodedSum(wlog'[1].T, wlog'[1].v, wend)
       /\ wret'.op = "write_sized_vec"
          => /\ wret'.val = Len(wbuf') - Len(wbuf)
             /\ wret'.val = EncodedSum(wlog'[1].T, wlog'[1].v, wend) + 4]_vars

----------------------------------------------------------------------------
(* Properties of the conversions *)

\* C8: for every integer type, Endianness and value v, decoding the encoding of
\* v gives (v, width), also when further bytes follow; with fewer than width
\* bytes the decode fails with OutOfBounds.
C8_IntRoundTrip ==
    (cArg.kind = "int" /\ cRes.stage = "decoded")
    => /\ Len(cRes.bytes) = SizeOf(cArg.T)
       /\ IF cArg.cut = 0
          THEN cRes.dec = Ok(cArg.v[1], SizeOf(cArg.T))
          ELSE cRes.dec = Err("OutOfBounds")

\* the smallest i16, big-endian, decoded with further bytes after it
C8_Witness ==
    /\ cArg.kind = "int"
    /\ cRes.stage = "decoded"
    /\ cArg.T = "i16"
    /\ cArg.v = <<-32768>>
    /\ cArg.e = "Big"
    /\ cArg.tail # <<>>
    /\ cRes.bytes = <<128, 0>>
    /\ cRes.dec.ok

\* C9: for every String s without a zero byte, the encoding is s's bytes and
\* one zero byte, and decoding it gives (s, len(s) + 1), also when further
\* bytes follow the zero byte.
C9_TextRoundTrip ==
    (cArg.kind = "str" /\ ZeroFree(cArg.v))
    => /\ cRes.stage \in {"encoded", "decoded"} => cRes.bytes = cArg.v \o <<0>>
       /\ cRes.stage = "decoded" => cRes.dec = Ok(cArg.v, Len(cArg.v) + 1)

\* C22: the consumed length a successful decode reports never exceeds the
\* number of bytes it was handed, for String::try_from_bytes also when the
\* bytes run out before a zero byte is found (so that consuming it keeps the
\* cursor inside the buffer).
C22_ConsumedWithinSupplied ==
    (cRes.stage = "decoded" /\ cRes.dec.ok)
    => cRes.dec.size <= Len(Supplied(cRes.bytes))

\* a three-byte String decoded with two further bytes after its terminator
C9_Witness ==
    /\ cArg.kind = "str"
    /\ cRes.stage = "decoded"
    /\ cArg.v = <<195, 169, 65>>
    /\ cArg.tail = <<65, 255>>
    /\ cRes.dec.ok
    /\ cRes.dec.size = 4

====
